---- MODULE Spec2Model ----
(***************************************************************************)
(* State-machine model of src/app.py.                                      *)
(*                                                                         *)
(* Part 1: the click/wheel/drag zoom-and-pan viewport that                 *)
(* render_click_zoom embeds (the script of lines 217-360).  Magnifications *)
(* are counted in thousandths (1.0 is 1000), pointer coordinates and       *)
(* offsets in pixels.  Every event handler of the script is one action.    *)
(* setTimeout callbacks are a FIFO queue: all have the same 250 ms delay,  *)
(* so they run in the order they were scheduled, at any later moment.      *)
(*                                                                         *)
(* Part 2: the page itself: the table textos_digitados behind get_resumo,  *)
(* listar_redacoes, carregar_redacao and salvar_texto, the session state   *)
(* and the script of lines 450-645.  One action is one user interaction    *)
(* handled to the end: the script run it triggers and, where the script    *)
(* calls st.rerun(), the run that follows.                                 *)
(***************************************************************************)
EXTENDS Integers, Sequences, FiniteSets, TLC

VARIABLES
  cfg,              \* the arguments of render_click_zoom
  track,            \* the two pointer positions the events of a run use
  mounted,          \* "none" | "rendered" | "InvalidConfig"
  scale, posX, posY, isPanning, startX, startY,
  downX, downY, movedSinceDown, ignoreNextClick,
  cursor,           \* img.style.cursor
  origin,           \* the --cx / --cy custom properties
  timers,           \* pending setTimeout callbacks, oldest first
  ev,               \* history: the event handled last
  g,                \* history: the pointer gesture in progress
  run               \* history: plain zoom-in clicks in a row since rest

VARIABLES
  textos_digitados,      \* the table: a sequence of rows
  somente_pendentes,     \* the sidebar toggle
  busca,                 \* the sidebar search box, as a sequence of digits
  selecionado,           \* st.session_state.selecionado
  loaded_redacao_id,     \* st.session_state.loaded_redacao_id
  last_saved_text,       \* st.session_state.last_saved_text
  texto_digitado_input,  \* st.session_state.texto_digitado_input (the editor)
  screen,                \* what the last run showed: "none" | "empty" | "error" | "editor"
  call                   \* history: the salvar_texto call of the last interaction

\* the page's variables
page ==
  << textos_digitados, somente_pendentes, busca, selecionado, loaded_redacao_id,
     last_saved_text, texto_digitado_input, screen, call >>

\* the viewport's variables
viewport ==
  << cfg, track, mounted, scale, posX, posY, isPanning, startX, startY,
     downX, downY, movedSinceDown, ignoreNextClick, cursor, origin,
     timers, ev, g, run >>

vars ==
  << cfg, track, mounted, scale, posX, posY, isPanning, startX, startY,
     downX, downY, movedSinceDown, ignoreNextClick, cursor, origin,
     timers, ev, g, run, page >>

(***************************************************************************)
(* Bounds of the model and constants of the program.                       *)
(***************************************************************************)
\* |posX|, |posY| explored (the code does not clamp the offset)
MaxOffset == 6

\* setTimeout callbacks pending at once
MaxTimers == 2

\* length of the click runs that `run` counts
MaxClicks == 7

DRAG_THRESHOLD == 5

\* the literal 1 that applyTransform compares scale with
CursorScale == 1000

\* The pointer positions <<clientX, clientY>> the events of one run are
\* drawn from: two points 6 px apart (beyond DRAG_THRESHOLD) along x or
\* along y, 5 px apart (at the threshold) or 1 px apart (below it).  A
\* point with a coordinate of 0 is one setOriginFromEvent cannot read.
Tracks == {"x6", "x5", "x1", "y6"}

Points(t) ==
  CASE t = "x6" -> { <<0, 6>>, <<6, 6>> }
    [] t = "x5" -> { <<0, 6>>, <<5, 6>> }
    [] t = "x1" -> { <<5, 6>>, <<6, 6>> }
    [] t = "y6" -> { <<6, 0>>, <<6, 6>> }

Buttons == {0, 2}

Details == {1, 2}

DeltaYs == {-1, 0, 1}

\* render_click_zoom's defaults, which are also what the page passes
AppConfig == [heightPx |-> 760, step |-> 500, maxScale |-> 4000, minScale |-> 1000]

\* a second valid configuration: minScale above 1.0, range not a multiple of step
AltConfig == [heightPx |-> 760, step |-> 500, maxScale |-> 2700, minScale |-> 2000]

ValidConfigs == {AppConfig, AltConfig}

\* a valid configuration whose step is not a multiple of 0.01
OffGridConfig == [heightPx |-> 760, step |-> 376, maxScale |-> 4000, minScale |-> 1000]

InvalidConfigs ==
  { [heightPx |-> 760, step |-> 500, maxScale |-> 1000, minScale |-> 1000],
    [heightPx |-> 760, step |-> 500, maxScale |-> 1000, minScale |-> 1500],
    [heightPx |-> 0,   step |-> 500, maxScale |-> 1500, minScale |-> 1000],
    [heightPx |-> 760, step |-> 0,   maxScale |-> 1500, minScale |-> 1000],
    [heightPx |-> 760, step |-> -500, maxScale |-> 1500, minScale |-> 1000] }


(***************************************************************************)
(* Pure helpers of the script.                                             *)
(***************************************************************************)
Abs(n) == IF n < 0 THEN -n ELSE n

Max2(a, b) == IF a >= b THEN a ELSE b

Min2(a, b) == IF a <= b THEN a ELSE b

clampNoUpper(v, lo, hi) == Max2(lo, v)

clamp(v, lo, hi) == Max2(lo, Min2(hi, v))

\* parseFloat(v.toFixed(2)) on thousandths: the nearest hundredth, a tie
\* going away from zero.
ToFixed2(v) ==
  IF v >= 0 THEN ((v + 5) \div 10) * 10 ELSE -((((-v) + 5) \div 10) * 10)

\* the cursor applyTransform sets
cursorOf(s, panning) ==
  IF s > CursorScale THEN (IF panning THEN "grabbing" ELSE "grab") ELSE "zoom-in"

OriginDefault == [set |-> FALSE, x |-> 0, y |-> 0]

\* setOriginFromEvent for a mouse or wheel event at (x, y): e.touches is
\* undefined there, so a coordinate of 0 (falsy) leaves clientX/clientY
\* undefined and the function returns without writing.  The percentages
\* are kept as the pointer position they are computed from.
setOriginFromEvent(x, y) ==
  IF x = 0 \/ y = 0 THEN origin ELSE [set |-> TRUE, x |-> x, y |-> y]

zoomScaleNoClamp(s, delta) == ToFixed2(s + delta)

\* the scale zoomBy computes
zoomScale(s, delta) ==
  clamp(ToFixed2(s + delta), cfg.minScale, cfg.maxScale)

(***************************************************************************)
(* History variables.  They record what happened and never feed back into  *)
(* the program's variables.                                                *)
(*   ev   "dblclick" after a double-click, "zoom" after a click or wheel   *)
(*        event that reached zoomBy, "other" after anything else           *)
(*   g    the pointer gesture: a press (primary mouse button or touch),    *)
(*        the moves and the release that follow it and the click after     *)
(*        the release, with the timeouts that run in between; any other    *)
(*        event ends the gesture that g follows                            *)
(*   run  the number of plain zoom-in clicks handled in a row starting     *)
(*        from scale = minScale; -1 outside such a run; -2 when the        *)
(*        specification does not count                                     *)
(***************************************************************************)
G0 ==
  [phase |-> "none",     \* "none" | "down" | "up" | "clicked"
   zoomed0 |-> FALSE,    \* scale > minScale at the press
   pan0 |-> FALSE,       \* isPanning was already set at the press
   px |-> 0, py |-> 0,   \* the press point (until the release)
   posX0 |-> 0, posY0 |-> 0,   \* the offset at the press (until the release)
   moves |-> FALSE,      \* a pointer move followed the press
   reach5 |-> FALSE,     \* the distance from the press point reached 5 px
   exc5 |-> FALSE,       \* it exceeded 5 px along one axis
   offDiff |-> FALSE,    \* at the release the offset differed from posX0, posY0
   offFar |-> FALSE,     \* ... by more than 5 px along one axis
   armed |-> FALSE,      \* the release set ignoreNextClick
   tfired |-> FALSE,     \* a timeout ran between the release and the click
   ownFired |-> FALSE,   \* the timeout this release scheduled ran before the click
   cplain |-> FALSE,     \* the click: primary button, detail 1
   cshift |-> FALSE,     \* the click: shift key held
   csupp |-> FALSE,      \* the click found ignoreNextClick set
   cs0 |-> 0]            \* the scale before the click

\* a primary-button press or a touch start at (x, y) begins a gesture
GPress(x, y) ==
  [G0 EXCEPT !.phase = "down", !.zoomed0 = (scale > cfg.minScale),
             !.pan0 = isPanning, !.px = x, !.py = y,
             !.posX0 = posX, !.posY0 = posY]

\* a pointer move to (x, y)
GMove(x, y) ==
  CASE g.phase = "down" ->
         [g EXCEPT
            !.moves = TRUE,
            !.reach5 = @ \/ ((x - g.px) * (x - g.px) + (y - g.py) * (y - g.py)
                               >= DRAG_THRESHOLD * DRAG_THRESHOLD),
            !.exc5 = @ \/ Abs(x - g.px) > DRAG_THRESHOLD
                       \/ Abs(y - g.py) > DRAG_THRESHOLD]
    [] OTHER -> G0

\* a release; arming: the handler sets ignoreNextClick
GRelease(arming) ==
  CASE g.phase = "down" ->
         [g EXCEPT !.phase = "up", !.px = 0, !.py = 0, !.posX0 = 0, !.posY0 = 0,
                   !.offDiff = (posX # g.posX0 \/ posY # g.posY0),
                   !.offFar = (Abs(posX - g.posX0) > DRAG_THRESHOLD
                                 \/ Abs(posY - g.posY0) > DRAG_THRESHOLD),
                   !.armed = arming]
    [] OTHER -> G0

\* a click
GClick(plain, shiftKey) ==
  CASE g.phase = "up" ->
         [g EXCEPT !.phase = "clicked", !.cplain = plain, !.cshift = shiftKey,
                   !.csupp = ignoreNextClick, !.cs0 = scale]
    [] OTHER -> G0

\* a wheel event, a double-click or a press of another button ends the
\* gesture that is followed
GOther == G0

\* a timeout callback
GTimer ==
  CASE g.phase = "up" ->
         [g EXCEPT !.tfired = TRUE,
                   !.ownFired = @ \/ (g.armed /\ Head(timers) = "cur")]
    [] g.phase = "down" -> g
    [] OTHER -> G0

\* `run` after an event that is not a plain zoom-in click, s: the scale
RunReset(s) ==
  CASE run = -2 -> -2
    [] s = cfg.minScale -> 0
    [] OTHER -> -1

\* `run` after a click that reached zoomBy with +step
RunClick(s) ==
  CASE run = -2 -> -2
    [] run >= 0 /\ run < MaxClicks -> run + 1
    [] OTHER -> RunReset(s)

(***************************************************************************)
(* The table and the functions that read and write it.                     *)
(***************************************************************************)
\* Python's None where an essay id is expected
NoId == 0

\* SQL NULL in the status column
NullStatus == -1

\* SQL NULL / Python None where a string is expected
NULL == "NULL"

\* the redacao_id values of the model; 12 contains the digits of 1 and 2
RedacaoIds == {1, 2, 12}

\* what the operator types into the editor
Typed == {"", "x"}

\* what the operator types into the search box
Buscas == { << >>, <<1>>, <<2>>, <<3>> }

NoCall == [rid |-> NoId, txt |-> NULL, img |-> NULL, n0 |-> 0, img0 |-> NULL]

Range(s) == { s[i] : i \in DOMAIN s }

\* COALESCE(status, 0)
CoalesceStatus(st) == IF st = NullStatus THEN 0 ELSE st

\* COALESCE(texto_digitado, '') and Python's  x or ""
OrEmpty(t) == IF t = NULL THEN "" ELSE t

_safe_image_url(raw) == IF raw = NULL \/ raw = "" THEN NULL ELSE raw

\* CAST(redacao_id AS CHAR), as the sequence of decimal digits
RECURSIVE Digits(_)
Digits(n) == IF n < 10 THEN << n >> ELSE Append(Digits(n \div 10), n % 10)

\* CAST(redacao_id AS CHAR) LIKE '%busca%' for a busca made of digits
Like(rid, b) ==
  \E i \in 1..(Len(Digits(rid)) - Len(b) + 1) :
    SubSeq(Digits(rid), i, i + Len(b) - 1) = b

RowsOf(rows, rid) == { i \in DOMAIN rows : rows[i].redacao_id = rid }

get_resumo(rows) ==
  [total |-> Len(rows),
   pendentes |-> Cardinality({ i \in DOMAIN rows : CoalesceStatus(rows[i].status) = 0 }),
   concluidos |-> Cardinality({ i \in DOMAIN rows : CoalesceStatus(rows[i].status) = 1 })]

\* the redacao_id column of listar_redacoes' result
listar_redacoes(rows, pend, b) ==
  LET keep(r) == /\ pend => CoalesceStatus(r.status) = 0
                 /\ b # << >> => Like(r.redacao_id, b)
      found == SortSeq(SelectSeq(rows, keep),
                       LAMBDA r1, r2 : r1.redacao_id < r2.redacao_id)
  IN [i \in DOMAIN found |-> found[i].redacao_id]

\* carregar_redacao; found = FALSE stands for the ValueError
carregar_redacao(rows, rid) ==
  IF RowsOf(rows, rid) = {}
    THEN [found |-> FALSE, redacao_id |-> NoId, imagem_url |-> NULL, status |-> 0,
          texto_digitado |-> ""]
    ELSE LET r == rows[CHOOSE i \in RowsOf(rows, rid) :
                         \A j \in RowsOf(rows, rid) : i <= j]
         IN [found |-> TRUE, redacao_id |-> r.redacao_id,
             imagem_url |-> _safe_image_url(r.arquivo_nome_armazenamento),
             status |-> CoalesceStatus(r.status),
             texto_digitado |-> OrEmpty(r.texto_digitado)]

salvar_textoAlwaysInsert(rows, rid, txt, img) ==
  Append(rows, [redacao_id |-> rid, texto_digitado |-> txt, status |-> 1,
                arquivo_nome_armazenamento |-> OrEmpty(img)])

salvar_textoPending(rows, rid, txt, img) ==
  [i \in DOMAIN rows |->
     IF rows[i].redacao_id = rid
       THEN [rows[i] EXCEPT !.texto_digitado = txt, !.status = 0]
       ELSE rows[i]]

\* salvar_texto: UPDATE, and INSERT when the UPDATE matched no row
salvar_texto(rows, rid, txt, img) ==
  LET upd == [i \in DOMAIN rows |->
                IF rows[i].redacao_id = rid
                  THEN [rows[i] EXCEPT !.texto_digitado = txt, !.status = 1]
                  ELSE rows[i]]
      rowcount == Cardinality(RowsOf(rows, rid))
  IN IF rowcount = 0
       THEN Append(upd, [redacao_id |-> rid, texto_digitado |-> txt, status |-> 1,
                         arquivo_nome_armazenamento |-> OrEmpty(img)])
       ELSE upd

\* the history record of a salvar_texto(rows, rid, txt, img) call
CallOf(rows, rid, txt, img) ==
  [rid |-> rid, txt |-> txt, img |-> img,
   n0 |-> Cardinality(RowsOf(rows, rid)),
   img0 |-> IF RowsOf(rows, rid) = {} THEN NULL
            ELSE rows[CHOOSE i \in RowsOf(rows, rid) : TRUE].arquivo_nome_armazenamento]

\* the page before its first run (lines 450-457)
PageInitial ==
  /\ somente_pendentes = TRUE
  /\ busca = << >>
  /\ selecionado = NoId
  /\ loaded_redacao_id = NoId
  /\ last_saved_text = ""
  /\ texto_digitado_input = ""
  /\ screen = "none"
  /\ call = NoCall

(***************************************************************************)
(* Initial state and mount.                                                *)
(***************************************************************************)
\* the script's state as lines 222-235 set it
ViewportInitial(configs, tracks, run0) ==
  /\ cfg \in configs
  /\ track \in tracks
  /\ mounted = "none"
  /\ scale = cfg.minScale
  /\ posX = 0 /\ posY = 0
  /\ isPanning = FALSE
  /\ startX = 0 /\ startY = 0
  /\ downX = 0 /\ downY = 0
  /\ movedSinceDown = FALSE
  /\ ignoreNextClick = FALSE
  /\ cursor = "zoom-in"
  /\ origin = OriginDefault
  /\ timers = << >>
  /\ ev = "other"
  /\ g = G0
  /\ run = run0

InitWith(configs, tracks, run0) ==
  /\ ViewportInitial(configs, tracks, run0)
  /\ textos_digitados = << >>
  /\ PageInitial

Init == InitWith(ValidConfigs, Tracks, -2)

\* render_click_zoom: writes the markup and runs the script, whatever the
\* arguments are
Mount ==
  /\ mounted = "none"
  /\ mounted' = "rendered"
  /\ scale' = cfg.minScale
  /\ posX' = 0 /\ posY' = 0
  /\ isPanning' = FALSE
  /\ startX' = 0 /\ startY' = 0
  /\ downX' = 0 /\ downY' = 0
  /\ movedSinceDown' = FALSE
  /\ ignoreNextClick' = FALSE
  /\ cursor' = cursorOf(cfg.minScale, FALSE)
  /\ origin' = OriginDefault
  /\ timers' = << >>
  /\ ev' = "other"
  /\ g' = G0
  /\ run' = run
  /\ UNCHANGED << page, cfg, track >>

(***************************************************************************)
(* Event handlers.                                                         *)
(***************************************************************************)
\* zoomBy(delta, e) with e at (x, y), applyTransform included
zoomBy(delta, x, y) ==
  LET prev == scale
      s == zoomScale(scale, delta)
  IN /\ scale' = s
     /\ origin' = IF prev # s THEN setOriginFromEvent(x, y) ELSE origin
     /\ posX' = IF s = cfg.minScale THEN 0 ELSE posX
     /\ posY' = IF s = cfg.minScale THEN 0 ELSE posY
     /\ cursor' = cursorOf(s, isPanning)

Click(x, y, shiftKey, detail, button) ==
  /\ mounted = "rendered"
  /\ ev' = IF ~ignoreNextClick /\ detail = 1 /\ button = 0
             THEN "zoom" ELSE "other"
  /\ g' = GClick(detail = 1 /\ button = 0, shiftKey)
  /\ IF ignoreNextClick
       THEN /\ ignoreNextClick' = FALSE
            /\ UNCHANGED << scale, origin, posX, posY, cursor >>
       ELSE /\ UNCHANGED ignoreNextClick
            /\ IF detail > 1 \/ button # 0
                 THEN UNCHANGED << scale, origin, posX, posY, cursor >>
                 ELSE zoomBy(IF shiftKey THEN -cfg.step ELSE cfg.step, x, y)
  /\ run' = IF ~ignoreNextClick /\ detail = 1 /\ button = 0 /\ ~shiftKey
              THEN RunClick(scale')
              ELSE RunReset(scale')
  /\ UNCHANGED << page, cfg, track, mounted, isPanning, startX, startY, downX, downY,
                  movedSinceDown, timers >>

WheelInverted(x, y, deltaY) ==
  /\ mounted = "rendered"
  /\ ev' = "zoom"
  /\ zoomBy(IF deltaY < 0 THEN -cfg.step ELSE cfg.step, x, y)
  /\ g' = GOther
  /\ run' = RunReset(scale')
  /\ UNCHANGED << page, cfg, track, mounted, isPanning, startX, startY, downX, downY,
                  movedSinceDown, ignoreNextClick, timers >>

Wheel(x, y, deltaY) ==
  /\ mounted = "rendered"
  /\ ev' = "zoom"
  /\ zoomBy(IF deltaY < 0 THEN cfg.step ELSE -cfg.step, x, y)
  /\ g' = GOther
  /\ run' = RunReset(scale')
  /\ UNCHANGED << page, cfg, track, mounted, isPanning, startX, startY, downX, downY,
                  movedSinceDown, ignoreNextClick, timers >>

DblClickKeepOffset ==
  /\ mounted = "rendered"
  /\ ev' = "dblclick"
  /\ g' = GOther
  /\ scale' = cfg.minScale
  /\ cursor' = cursorOf(cfg.minScale, isPanning)
  /\ run' = RunReset(cfg.minScale)
  /\ UNCHANGED << page, cfg, track, mounted, posX, posY, isPanning, startX, startY, downX,
                  downY, movedSinceDown, ignoreNextClick, origin, timers >>

DblClick ==
  /\ mounted = "rendered"
  /\ ev' = "dblclick"
  /\ g' = GOther
  /\ scale' = cfg.minScale
  /\ posX' = 0 /\ posY' = 0
  /\ cursor' = cursorOf(cfg.minScale, isPanning)
  /\ run' = RunReset(cfg.minScale)
  /\ UNCHANGED << page, cfg, track, mounted, isPanning, startX, startY, downX, downY,
                  movedSinceDown, ignoreNextClick, origin, timers >>

MouseDown(x, y, button) ==
  /\ mounted = "rendered"
  /\ ev' = "other"
  /\ g' = IF button = 0 THEN GPress(x, y) ELSE GOther
  /\ run' = RunReset(scale)
  /\ IF button # 0 \/ scale <= cfg.minScale
       THEN UNCHANGED << isPanning, movedSinceDown, downX, downY, startX,
                         startY, cursor >>
       ELSE /\ isPanning' = TRUE
            /\ movedSinceDown' = FALSE
            /\ downX' = x /\ downY' = y
            /\ startX' = x - posX
            /\ startY' = y - posY
            /\ cursor' = "grabbing"
  /\ UNCHANGED << page, cfg, track, mounted, scale, posX, posY, ignoreNextClick, origin,
                  timers >>

\* the body shared by the mousemove and touchmove handlers
panTo(x, y) ==
  IF ~isPanning
    THEN UNCHANGED << posX, posY, movedSinceDown, cursor >>
    ELSE /\ Abs(x - startX) <= MaxOffset
         /\ Abs(y - startY) <= MaxOffset
         /\ posX' = x - startX
         /\ posY' = y - startY
         /\ movedSinceDown' =
              IF ~movedSinceDown
                THEN (Abs(x - downX) > DRAG_THRESHOLD
                        \/ Abs(y - downY) > DRAG_THRESHOLD)
                ELSE movedSinceDown
         /\ cursor' = cursorOf(scale, isPanning)

MouseMove(x, y) ==
  /\ mounted = "rendered"
  /\ ev' = "other"
  /\ g' = GMove(x, y)
  /\ run' = RunReset(scale)
  /\ panTo(x, y)
  /\ UNCHANGED << page, cfg, track, mounted, scale, isPanning, startX, startY, downX,
                  downY, ignoreNextClick, origin, timers >>

armIfMovedNoFlag ==
  IF movedSinceDown
    THEN /\ Len(timers) < MaxTimers
         /\ UNCHANGED ignoreNextClick
         /\ timers' = Append([i \in 1..Len(timers) |-> "old"], "cur")
    ELSE UNCHANGED << ignoreNextClick, timers >>

\* the part shared by the mouseup and touchend handlers: arm the
\* suppression and schedule its timeout
armIfMoved ==
  IF movedSinceDown
    THEN /\ Len(timers) < MaxTimers
         /\ ignoreNextClick' = TRUE
         /\ timers' = Append([i \in 1..Len(timers) |-> "old"], "cur")
    ELSE UNCHANGED << ignoreNextClick, timers >>

MouseUpNoArm ==
  /\ mounted = "rendered"
  /\ ev' = "other"
  /\ g' = GRelease(FALSE)
  /\ run' = RunReset(scale)
  /\ IF ~isPanning
       THEN UNCHANGED << isPanning, cursor >>
       ELSE /\ isPanning' = FALSE
            /\ cursor' = IF scale > cfg.minScale THEN "grab" ELSE cursor
  /\ UNCHANGED << page, cfg, track, mounted, scale, posX, posY, startX, startY, downX,
                  downY, movedSinceDown, origin, ignoreNextClick, timers >>

MouseUp ==
  /\ mounted = "rendered"
  /\ ev' = "other"
  /\ g' = GRelease(isPanning /\ movedSinceDown)
  /\ run' = RunReset(scale)
  /\ IF ~isPanning
       THEN UNCHANGED << isPanning, ignoreNextClick, timers, cursor >>
       ELSE /\ isPanning' = FALSE
            /\ armIfMoved
            /\ cursor' = IF scale > cfg.minScale THEN "grab" ELSE cursor
  /\ UNCHANGED << page, cfg, track, mounted, scale, posX, posY, startX, startY, downX,
                  downY, movedSinceDown, origin >>

TouchStart(x, y) ==
  /\ mounted = "rendered"
  /\ ev' = "other"
  /\ g' = GPress(x, y)
  /\ run' = RunReset(scale)
  /\ IF scale <= cfg.minScale
       THEN UNCHANGED << isPanning, movedSinceDown, downX, downY, startX,
                         startY >>
       ELSE /\ isPanning' = TRUE
            /\ movedSinceDown' = FALSE
            /\ downX' = x /\ downY' = y
            /\ startX' = x - posX
            /\ startY' = y - posY
  /\ UNCHANGED << page, cfg, track, mounted, scale, posX, posY, ignoreNextClick, origin,
                  timers, cursor >>

TouchMove(x, y) ==
  /\ mounted = "rendered"
  /\ ev' = "other"
  /\ g' = GMove(x, y)
  /\ run' = RunReset(scale)
  /\ panTo(x, y)
  /\ UNCHANGED << page, cfg, track, mounted, scale, isPanning, startX, startY, downX,
                  downY, ignoreNextClick, origin, timers >>

TouchEndKeepPanning ==
  /\ mounted = "rendered"
  /\ ev' = "other"
  /\ g' = GRelease(isPanning /\ movedSinceDown)
  /\ run' = RunReset(scale)
  /\ IF ~isPanning
       THEN UNCHANGED << ignoreNextClick, timers >>
       ELSE armIfMoved
  /\ UNCHANGED << page, cfg, track, mounted, scale, posX, posY, startX, startY, downX,
                  downY, movedSinceDown, origin, cursor, isPanning >>

TouchEnd ==
  /\ mounted = "rendered"
  /\ ev' = "other"
  /\ g' = GRelease(isPanning /\ movedSinceDown)
  /\ run' = RunReset(scale)
  /\ IF ~isPanning
       THEN UNCHANGED << isPanning, ignoreNextClick, timers >>
       ELSE /\ isPanning' = FALSE
            /\ armIfMoved
  /\ UNCHANGED << page, cfg, track, mounted, scale, posX, posY, startX, startY, downX,
                  downY, movedSinceDown, origin, cursor >>

TimerFireNoClear ==
  /\ mounted = "rendered"
  /\ timers # << >>
  /\ ev' = "other"
  /\ g' = GTimer
  /\ run' = RunReset(scale)
  /\ timers' = Tail(timers)
  /\ UNCHANGED << page, cfg, track, mounted, scale, posX, posY, isPanning, startX,
                  startY, downX, downY, movedSinceDown, origin, cursor,
                  ignoreNextClick >>

\* the oldest pending setTimeout callback runs
TimerFire ==
  /\ mounted = "rendered"
  /\ timers # << >>
  /\ ev' = "other"
  /\ g' = GTimer
  /\ run' = RunReset(scale)
  /\ timers' = Tail(timers)
  /\ ignoreNextClick' = FALSE
  /\ UNCHANGED << page, cfg, track, mounted, scale, posX, posY, isPanning, startX, startY,
                  downX, downY, movedSinceDown, origin, cursor >>

Next ==
  \/ Mount
  \/ \E p \in Points(track), sh \in BOOLEAN, d \in Details, b \in Buttons :
       Click(p[1], p[2], sh, d, b)
  \/ \E p \in Points(track), dy \in DeltaYs : Wheel(p[1], p[2], dy)
  \/ DblClick
  \/ \E p \in Points(track), b \in Buttons : MouseDown(p[1], p[2], b)
  \/ \E p \in Points(track) : MouseMove(p[1], p[2])
  \/ MouseUp
  \/ \E p \in Points(track) : TouchStart(p[1], p[2])
  \/ \E p \in Points(track) : TouchMove(p[1], p[2])
  \/ TouchEnd
  \/ TimerFire

Spec == Init /\ [][Next]_vars

\* the same program where setTimeout callbacks do run: a pending timeout
\* is not postponed for ever
FairSpec == Init /\ [][Next]_vars /\ WF_vars(TimerFire)

\* render_click_zoom called with any arguments
MountSpec == InitWith(InvalidConfigs \cup {AltConfig}, {"x6"}, -2) /\ [][Next]_vars

\* the page's own configuration, counting runs of zoom-in clicks
ClickSpec == InitWith({AppConfig}, Tracks, 0) /\ [][Next]_vars

\* the same program where, besides, every press is followed by a release
ReleaseSpec ==
  Init /\ [][Next]_vars /\ WF_vars(TimerFire) /\ WF_vars(MouseUp) /\ WF_vars(TouchEnd)

\* a configuration whose zoom steps toFixed(2) does round
StepSpec == InitWith({OffGridConfig}, {"x6"}, -2) /\ [][Next]_vars

(***************************************************************************)
(* The page script (lines 450-645).                                        *)
(***************************************************************************)
\* ids.index(x)
IndexOf(ids, x) ==
  CHOOSE i \in DOMAIN ids : ids[i] = x /\ \A j \in 1..(i - 1) : ids[j] # x

\* lines 497-527: the list, the valid selection and the selectbox; pick is
\* the option the operator chose in the selectbox in this run, NoId when
\* the run was triggered by something else (the selectbox then returns the
\* option at the index it was given)
Selection(rows, pend, b, sel, loaded, pick) ==
  LET ids == listar_redacoes(rows, pend, b)
      sel1 == IF ids # << >> /\ sel \notin Range(ids) THEN ids[1] ELSE sel
      selecionado_id == IF pick \in Range(ids) THEN pick ELSE sel1
  IN [ids |-> ids,
      selecionado |-> selecionado_id,
      loaded_redacao_id |-> IF selecionado_id # sel1 THEN NoId ELSE loaded]

EditorAlwaysReload(rows, sel, loaded, txt, last) ==
  LET dados == carregar_redacao(rows, sel)
  IN [dados |-> dados,
      loaded_redacao_id |-> dados.redacao_id,
      texto_digitado_input |-> dados.texto_digitado,
      last_saved_text |-> dados.texto_digitado]

\* lines 565-577: load the selected essay, refill the editor when another
\* essay was loaded
Editor(rows, sel, loaded, txt, last) ==
  LET dados == carregar_redacao(rows, sel)
      reload == dados.found /\ loaded # dados.redacao_id
  IN [dados |-> dados,
      loaded_redacao_id |-> IF reload THEN dados.redacao_id ELSE loaded,
      texto_digitado_input |-> IF reload THEN dados.texto_digitado ELSE txt,
      last_saved_text |-> IF reload THEN dados.texto_digitado ELSE last]

\* one run of the script in which no button is pressed, from the session
\* state given: st.stop() at line 512 on an empty list and at line 571 on a
\* failed load leave the session state as it is
Show(rows, pend, b, sel, loaded, txt, last, pick) ==
  LET s1 == Selection(rows, pend, b, sel, loaded, pick)
      e == Editor(rows, s1.selecionado, s1.loaded_redacao_id, txt, last)
  IN IF s1.ids = << >>
       THEN /\ screen' = "empty"
            /\ selecionado' = sel
            /\ loaded_redacao_id' = loaded
            /\ texto_digitado_input' = txt
            /\ last_saved_text' = last
       ELSE /\ screen' = IF e.dados.found THEN "editor" ELSE "error"
            /\ selecionado' = s1.selecionado
            /\ loaded_redacao_id' = e.loaded_redacao_id
            /\ texto_digitado_input' = e.texto_digitado_input
            /\ last_saved_text' = e.last_saved_text

\* the first run of a session
Open ==
  /\ screen = "none"
  /\ Show(textos_digitados, somente_pendentes, busca, selecionado,
          loaded_redacao_id, texto_digitado_input, last_saved_text, NoId)
  /\ call' = NoCall
  /\ UNCHANGED << viewport, textos_digitados, somente_pendentes, busca >>

\* the operator flips the toggle of line 493
Toggle ==
  /\ screen # "none"
  /\ somente_pendentes' = ~somente_pendentes
  /\ Show(textos_digitados, ~somente_pendentes, busca, selecionado,
          loaded_redacao_id, texto_digitado_input, last_saved_text, NoId)
  /\ call' = NoCall
  /\ UNCHANGED << viewport, textos_digitados, busca >>

\* the operator changes the search box of line 494 to b
Search(b) ==
  /\ screen # "none"
  /\ b # busca
  /\ busca' = b
  /\ Show(textos_digitados, somente_pendentes, b, selecionado,
          loaded_redacao_id, texto_digitado_input, last_saved_text, NoId)
  /\ call' = NoCall
  /\ UNCHANGED << viewport, textos_digitados, somente_pendentes >>

\* the operator picks essay v in the selectbox of line 518
Select(v) ==
  /\ screen = "editor"
  /\ v \in Range(listar_redacoes(textos_digitados, somente_pendentes, busca))
  /\ v # selecionado
  /\ Show(textos_digitados, somente_pendentes, busca, selecionado,
          loaded_redacao_id, texto_digitado_input, last_saved_text, v)
  /\ call' = NoCall
  /\ UNCHANGED << viewport, textos_digitados, somente_pendentes, busca >>

\* the operator changes the text of the editor (line 604) to t
EditText(t) ==
  /\ screen = "editor"
  /\ t # texto_digitado_input
  /\ Show(textos_digitados, somente_pendentes, busca, selecionado,
          loaded_redacao_id, t, last_saved_text, NoId)
  /\ call' = NoCall
  /\ UNCHANGED << viewport, textos_digitados, somente_pendentes, busca >>

\* lines 529-545: a click on "Anterior" (step = -1) or "Proximo" (step = 1),
\* which are disabled at the ends of the list, and the rerun that follows.
\* The rerun starts with loaded_redacao_id = None, so it refills the editor
\* whatever the editor held.
Navigate(step) ==
  LET s1 == Selection(textos_digitados, somente_pendentes, busca, selecionado,
                      loaded_redacao_id, NoId)
      idx_atual == IndexOf(s1.ids, s1.selecionado)
  IN /\ screen = "editor"
     /\ s1.ids # << >>
     /\ step = -1 => ~(idx_atual <= 1)
     /\ step = 1 => ~(idx_atual >= Len(s1.ids))
     /\ Show(textos_digitados, somente_pendentes, busca, s1.ids[idx_atual + step],
             NoId, texto_digitado_input, last_saved_text, NoId)
     /\ call' = NoCall
     /\ UNCHANGED << viewport, textos_digitados, somente_pendentes, busca >>

Anterior == Navigate(-1)

Proximo == Navigate(1)

SalvarOther(next) ==
  LET s1 == Selection(textos_digitados, somente_pendentes, busca, selecionado,
                      loaded_redacao_id, NoId)
      e == Editor(textos_digitados, s1.selecionado, s1.loaded_redacao_id,
                  texto_digitado_input, last_saved_text)
      curr_text == e.texto_digitado_input
      other == s1.ids[(IndexOf(s1.ids, s1.selecionado) % Len(s1.ids)) + 1]
      idx == IndexOf(s1.ids, s1.selecionado)
      go == next /\ idx < Len(s1.ids)
      saved == salvar_texto(textos_digitados, other, curr_text,
                            e.dados.imagem_url)
  IN /\ screen = "editor"
     /\ s1.ids # << >>
     /\ e.dados.found
     /\ textos_digitados' = saved
     /\ call' = CallOf(textos_digitados, other, curr_text,
                       e.dados.imagem_url)
     /\ Show(saved, somente_pendentes, busca,
             IF go THEN s1.ids[idx + 1] ELSE s1.selecionado,
             IF go THEN NoId ELSE e.loaded_redacao_id,
             curr_text, curr_text, NoId)
     /\ UNCHANGED << viewport, somente_pendentes, busca >>

\* lines 611-637: a click on "Salvar" (next = FALSE) or on "Salvar e ir para
\* o proximo" (next = TRUE) in the run that shows the editor: the save, the
\* step to the next essay of the list of this run, and the rerun
Salvar(next) ==
  LET s1 == Selection(textos_digitados, somente_pendentes, busca, selecionado,
                      loaded_redacao_id, NoId)
      e == Editor(textos_digitados, s1.selecionado, s1.loaded_redacao_id,
                  texto_digitado_input, last_saved_text)
      curr_text == e.texto_digitado_input
      idx == IndexOf(s1.ids, s1.selecionado)
      go == next /\ idx < Len(s1.ids)
      saved == salvar_texto(textos_digitados, e.dados.redacao_id, curr_text,
                            e.dados.imagem_url)
  IN /\ screen = "editor"
     /\ s1.ids # << >>
     /\ e.dados.found
     /\ textos_digitados' = saved
     /\ call' = CallOf(textos_digitados, e.dados.redacao_id, curr_text,
                       e.dados.imagem_url)
     /\ Show(saved, somente_pendentes, busca,
             IF go THEN s1.ids[idx + 1] ELSE s1.selecionado,
             IF go THEN NoId ELSE e.loaded_redacao_id,
             curr_text, curr_text, NoId)
     /\ UNCHANGED << viewport, somente_pendentes, busca >>

PageNext ==
  \/ Open
  \/ Toggle
  \/ \E b \in Buscas : Search(b)
  \/ \E v \in RedacaoIds : Select(v)
  \/ \E t \in Typed : EditText(t)
  \/ Anterior
  \/ Proximo
  \/ \E next \in BOOLEAN : Salvar(next)

\* the tables the page starts from: one row per id; the first has no text,
\* no image and possibly no status, the last may have a status the
\* application does not know
PageTables ==
  { << [redacao_id |-> 1, texto_digitado |-> NULL, status |-> s1,
        arquivo_nome_armazenamento |-> NULL],
       [redacao_id |-> 2, texto_digitado |-> "b", status |-> s2,
        arquivo_nome_armazenamento |-> "u2"],
       [redacao_id |-> 12, texto_digitado |-> "c", status |-> s12,
        arquivo_nome_armazenamento |-> "https://u12"] >> :
    s1 \in {NullStatus, 0, 1}, s2 \in {0, 1}, s12 \in {0, 1, 2} }

PageInit ==
  /\ ViewportInitial({AppConfig}, {"x6"}, -2)
  /\ textos_digitados \in PageTables
  /\ PageInitial

\* the page in one session, the table written by this session only
PageSpec == PageInit /\ [][PageNext]_vars

\* salvar_texto called with any arguments
SalvarTexto(rid, txt, img) ==
  /\ textos_digitados' = salvar_texto(textos_digitados, rid, txt, img)
  /\ call' = CallOf(textos_digitados, rid, txt, img)
  /\ UNCHANGED << viewport, somente_pendentes, busca, selecionado,
                  loaded_redacao_id, last_saved_text, texto_digitado_input,
                  screen >>

DbNext ==
  \E rid \in {1, 2}, txt \in {"", "x"}, img \in {NULL, "", "v"} :
    SalvarTexto(rid, txt, img)

\* the tables salvar_texto is called on: at most one row per id
DbRows(rid) ==
  { [redacao_id |-> rid, texto_digitado |-> t, status |-> st,
     arquivo_nome_armazenamento |-> a] :
    t \in {NULL, "x"}, st \in {NullStatus, 0, 1, 2}, a \in {NULL, "u"} }

DbTables ==
  {<< >>} \cup { << r >> : r \in DbRows(1) \cup DbRows(2) }
          \cup { << r1, r2 >> : r1 \in DbRows(1), r2 \in DbRows(2) }

DbInit ==
  /\ ViewportInitial({AppConfig}, {"x6"}, -2)
  /\ textos_digitados \in DbTables
  /\ PageInitial

DbSpec == DbInit /\ [][DbNext]_vars

(***************************************************************************)
(* Claims.                                                                 *)
(***************************************************************************)
Rendered == mounted = "rendered"

\* v brought into [minScale, maxScale]
Clamped(v) ==
  IF v < cfg.minScale THEN cfg.minScale
  ELSE IF v > cfg.maxScale THEN cfg.maxScale ELSE v

\* what one zoom step of a click makes of scale s0
StepOf(s0, shiftKey) == Clamped(IF shiftKey THEN s0 - cfg.step ELSE s0 + cfg.step)

\* C1: in every reachable state of a viewport mounted with a valid
\* configuration, minScale <= scale <= maxScale.
C1_ScaleInRange ==
  Rendered => (cfg.minScale <= scale /\ scale <= cfg.maxScale)

\* a zoom step was cut at maxScale (2.5 + 0.5 in [2.0, 2.7])
C1_Witness ==
  Rendered /\ ev = "zoom" /\ cfg = AltConfig /\ scale = cfg.maxScale

\* C2 (as claimed): in every reachable state scale = minScale implies
\* offsetX = 0 and offsetY = 0.
C2_RestCentered ==
  (Rendered /\ scale = cfg.minScale) => (posX = 0 /\ posY = 0)

C4_SuppressionEnds ==
  /\ ignoreNextClick ~> ~ignoreNextClick
  /\ [][\A p \in Points(track), sh \in BOOLEAN :
          (timers = << >> /\ Click(p[1], p[2], sh, 1, 0))
            => scale' = StepOf(scale, sh)]_vars

\* a drag release armed the suppression, its timeout ran, and the click
\* that came after it zoomed
C4_Witness ==
  /\ g.phase = "clicked" /\ g.armed /\ g.ownFired /\ g.cplain
  /\ ~ignoreNextClick /\ timers = << >> /\ scale # g.cs0

\* C5 (as claimed): a press-move-release that stays below 5 px from the
\* press point never arms ignoreNextClick, and the primary single click
\* that follows it applies one zoom step.
C5_SmallMoveIsClick ==
  /\ (g.phase \in {"up", "clicked"} /\ ~g.reach5) => ~g.armed
  /\ (g.phase = "clicked" /\ ~g.reach5 /\ g.cplain)
       => scale = StepOf(g.cs0, g.cshift)

C7_DblClickResets ==
  ev = "dblclick" => (scale = cfg.minScale /\ posX = 0 /\ posY = 0)

\* a double-click handled while a drag was in progress and the suppression
\* was armed
C7_Witness ==
  ev = "dblclick" /\ isPanning /\ ignoreNextClick /\ movedSinceDown

\* C8 (as claimed): after a press at scale = minScale and any number of
\* pointer moves, offsetX, offsetY and isPanning are what they were at the
\* press.
C8_NoPanAtRest ==
  (g.phase = "down" /\ ~g.zoomed0 /\ scale = cfg.minScale)
    => (posX = g.posX0 /\ posY = g.posY0 /\ isPanning = g.pan0)

\* C9 (as claimed): with max_scale <= min_scale, or a non-positive
\* height_px or step, render_click_zoom fails with InvalidConfig and
\* renders nothing.
C9_InvalidConfigRejected ==
  (cfg.maxScale <= cfg.minScale \/ cfg.heightPx <= 0 \/ cfg.step <= 0)
    => mounted # "rendered"

\* C10: with minScale = 1.0, maxScale = 4.0 and step = 0.5, n plain
\* unsuppressed zoom-in clicks in a row from rest give
\* scale = min(4.0, 1.0 + 0.5 n): 4.0 after six, 4.0 after seven.
C10_ClickRun ==
  (cfg = AppConfig /\ run >= 0)
    => scale = (IF 1000 + 500 * run < 4000 THEN 1000 + 500 * run ELSE 4000)

\* the seventh click of a run
C10_Witness ==
  cfg = AppConfig /\ run = 7 /\ scale = 4000

\* C11 (as claimed): the cursor is "zoom-in" when scale = minScale, "grab"
\* when scale > minScale and no drag is active, and "grabbing" exactly
\* while a drag is active, after every handler and for every valid
\* minScale.
C11_CursorFollowsState ==
  Rendered =>
    /\ scale = cfg.minScale => cursor = "zoom-in"
    /\ (scale > cfg.minScale /\ ~isPanning) => cursor = "grab"
    /\ cursor = "grabbing" <=> isPanning

\* C12: after every release isPanning is false; a pointer move delivered
\* while no drag is active leaves the offset unchanged; and when releases
\* do come, a drag in progress always ends.
C12_ReleaseEndsDrag ==
  /\ [][(MouseUp \/ TouchEnd) => ~isPanning']_vars
  /\ [][\A p \in Points(track) :
          (~isPanning /\ (MouseMove(p[1], p[2]) \/ TouchMove(p[1], p[2])))
            => (posX' = posX /\ posY' = posY)]_vars
  /\ isPanning ~> ~isPanning

\* a drag that moved the offset by more than 5 px was released: the drag
\* is over and the offset stays where the drag left it
C12_Witness ==
  g.phase = "up" /\ g.zoomed0 /\ g.offFar /\ ~isPanning /\ posX # 0

\* C14 (as claimed): between a drag release that armed the suppression and
\* the first click after it, ignoreNextClick stays set until that
\* release's own timeout has run.
C14_OwnTimeoutOnly ==
  (g.phase = "up" /\ g.armed /\ ~g.ownFired) => ignoreNextClick

\* C15 (as claimed): isPanning implies scale > minScale, and the release
\* of a drag leaves scale > minScale with isPanning false.
C15_PanningOnlyZoomed ==
  /\ isPanning => scale > cfg.minScale
  /\ (g.phase = "up" /\ (g.zoomed0 \/ g.pan0))
       => (scale > cfg.minScale /\ ~isPanning)

\* C16 (as claimed): the transform origin changes only in a click or wheel
\* step that changes scale, and such a step sets it from the pointer
\* position of its event.
C16_OriginOnScaleChange ==
  /\ [][origin' # origin => (ev' = "zoom" /\ scale' # scale)]_vars
  /\ [][\A p \in Points(track), sh \in BOOLEAN, dy \in DeltaYs :
          ((Click(p[1], p[2], sh, 1, 0) \/ Wheel(p[1], p[2], dy))
             /\ scale' # scale)
            => origin' = [set |-> TRUE, x |-> p[1], y |-> p[2]]]_vars

\* C17 (as claimed): an unsuppressed primary single click and a wheel
\* event set scale to clamp(scale + d, minScale, maxScale), d = +step for
\* a click without shift and a forward wheel event (deltaY < 0), d = -step
\* for a shift-click and a backward wheel event (deltaY > 0); a wheel event
\* leaves ignoreNextClick alone; a click with detail > 1 or another button
\* leaves scale alone.
C17_ZoomStepExact ==
  /\ [][\A p \in Points(track), sh \in BOOLEAN :
          (Click(p[1], p[2], sh, 1, 0) /\ ~ignoreNextClick)
            => scale' = Clamped(scale + (IF sh THEN -cfg.step ELSE cfg.step))]_vars
  /\ [][scale' # scale
          => \A p \in Points(track), sh \in BOOLEAN, d \in Details, b \in Buttons :
               ~(Click(p[1], p[2], sh, d, b) /\ (d > 1 \/ b # 0))]_vars
  /\ [][\A p \in Points(track), dy \in DeltaYs \ {0} :
          Wheel(p[1], p[2], dy)
            => /\ scale' = Clamped(scale + (IF dy < 0 THEN cfg.step ELSE -cfg.step))
               /\ ignoreNextClick' = ignoreNextClick]_vars

\* C17 (amended): the same with the sum rounded to two decimals before it
\* is clamped, and with a wheel event of deltaY = 0 counted as backward.
C17_ZoomStepRounded ==
  /\ [][\A p \in Points(track), sh \in BOOLEAN :
          (Click(p[1], p[2], sh, 1, 0) /\ ~ignoreNextClick)
            => scale' = Clamped(ToFixed2(scale + (IF sh THEN -cfg.step
                                                           ELSE cfg.step)))]_vars
  /\ [][scale' # scale
          => \A p \in Points(track), sh \in BOOLEAN, d \in Details, b \in Buttons :
               ~(Click(p[1], p[2], sh, d, b)
                   /\ (ignoreNextClick \/ d > 1 \/ b # 0))]_vars
  /\ [][\A p \in Points(track), dy \in DeltaYs :
          Wheel(p[1], p[2], dy)
            => /\ scale' = Clamped(ToFixed2(scale + (IF dy < 0 THEN cfg.step
                                                               ELSE -cfg.step)))
               /\ ignoreNextClick' = ignoreNextClick]_vars

\* a zoom step from 1.0 by 0.376 was rounded to 1.38 while the suppression
\* was armed (so the step was a wheel event's)
C17_Witness ==
  cfg = OffGridConfig /\ ev = "zoom" /\ scale = 1380 /\ ignoreNextClick

\* the rows of the table with the given id
Stored(rid) == { textos_digitados[i] : i \in RowsOf(textos_digitados, rid) }

\* C13: after salvar_texto(id, text, image) a record with that id exists,
\* its text is the given text and its status is 1; if one existed before,
\* there are as many as before and the stored image reference is what it
\* was; if none existed there is exactly one, with the given image
\* reference (the empty string when the reference given is None).
C13_Upsert ==
  call.rid # NoId =>
    /\ Stored(call.rid) # {}
    /\ \A r \in Stored(call.rid) : r.texto_digitado = call.txt /\ r.status = 1
    /\ call.n0 > 0 =>
         /\ Cardinality(RowsOf(textos_digitados, call.rid)) = call.n0
         /\ \A r \in Stored(call.rid) : r.arquivo_nome_armazenamento = call.img0
    /\ call.n0 = 0 =>
         /\ Cardinality(RowsOf(textos_digitados, call.rid)) = 1
         /\ \A r \in Stored(call.rid) :
              r.arquivo_nome_armazenamento = OrEmpty(call.img)

\* the last call updated a record whose stored image differs from the one
\* passed, in a table that also holds a record an earlier call inserted
\* without an image
C13_Witness ==
  /\ call.n0 = 1 /\ call.img = "v" /\ call.img0 = "u"
  /\ \E i \in DOMAIN textos_digitados :
       textos_digitados[i].arquivo_nome_armazenamento = ""

\* C18: whenever the editor is shown the selected id is in the current
\* list and is the loaded id; a save writes the editor's text to the
\* record of the essay that was selected and changes no other record;
\* Anterior, Proximo and Salvar-e-proximo select an id of the list.
C18_SelectionConsistent ==
  /\ [](screen = "editor" =>
          /\ selecionado \in Range(listar_redacoes(textos_digitados,
                                                   somente_pendentes, busca))
          /\ loaded_redacao_id = selecionado)
  /\ [][\A next \in BOOLEAN :
          Salvar(next) =>
            /\ call'.rid = selecionado
            /\ call'.txt = texto_digitado_input
            /\ Len(textos_digitados') = Len(textos_digitados)
            /\ \A i \in DOMAIN textos_digitados :
                 IF textos_digitados[i].redacao_id = selecionado
                   THEN textos_digitados'[i].texto_digitado = texto_digitado_input
                   ELSE textos_digitados'[i] = textos_digitados[i]]_vars
  /\ [][(Anterior \/ Proximo \/ Salvar(TRUE)) =>
          selecionado' \in Range(listar_redacoes(textos_digitados,
                                                 somente_pendentes, busca))]_vars
  /\ [][Anterior =>
          LET ids == listar_redacoes(textos_digitados, somente_pendentes, busca)
          IN IndexOf(ids, selecionado') = IndexOf(ids, selecionado) - 1]_vars
  /\ [][Proximo =>
          LET ids == listar_redacoes(textos_digitados, somente_pendentes, busca)
          IN IndexOf(ids, selecionado') = IndexOf(ids, selecionado) + 1]_vars

\* the typed text "x" was saved to one essay and the editor now shows
\* another one
C18_Witness ==
  /\ screen = "editor" /\ call.rid # NoId /\ call.txt = "x"
  /\ selecionado # call.rid

\* the text stored in rows for essay rid, as the application reads it
StoredText(rows, rid) == carregar_redacao(rows, rid).texto_digitado

\* C19: a run that shows the editor with the same essay selected as
\* before leaves the editor's text as it was, unless the run is the
\* operator's own edit, which leaves the text typed; a run that shows the
\* editor with another essay selected shows that essay's stored text.
C19_EditorReload ==
  /\ [][(screen' = "editor" /\ selecionado' = selecionado
           /\ ~(\E t \in Typed : EditText(t)))
          => texto_digitado_input' = texto_digitado_input]_vars
  /\ [][\A t \in Typed : EditText(t) => texto_digitado_input' = t]_vars
  /\ [][(screen' = "editor" /\ selecionado' # selecionado)
          => texto_digitado_input' = StoredText(textos_digitados', selecionado')]_vars

\* an essay was saved with the typed text while the filter shows all
\* essays, it is still the selected one and the editor still holds the
\* text
C19_Witness ==
  /\ screen = "editor" /\ ~somente_pendentes /\ call.rid = selecionado
  /\ texto_digitado_input = "x"

\* C20: a record with status 1 keeps status 1 in every step, the number of
\* completed records never decreases, and when every status is NULL, 0 or
\* 1 the summary's total is pending plus completed.
C20_CompletionMonotonic ==
  /\ [][/\ \A i \in DOMAIN textos_digitados :
             textos_digitados[i].status = 1
               => /\ i \in DOMAIN textos_digitados'
                  /\ textos_digitados'[i].status = 1
                  /\ textos_digitados'[i].redacao_id = textos_digitados[i].redacao_id
        /\ get_resumo(textos_digitados').concluidos
             >= get_resumo(textos_digitados).concluidos]_vars
  /\ []((\A i \in DOMAIN textos_digitados :
           textos_digitados[i].status \in {NullStatus, 0, 1})
          => get_resumo(textos_digitados).total
               = get_resumo(textos_digitados).pendentes
                   + get_resumo(textos_digitados).concluidos)

\* every record has been completed, the last one by a save of this session
C20_Witness ==
  /\ call.rid # NoId
  /\ get_resumo(textos_digitados).concluidos = 3
  /\ get_resumo(textos_digitados).pendentes = 0

====
